---- MODULE Spec2Model ----
(***************************************************************************)
(* Model of .github/workflows/pr_review.py: the diff segmenter             *)
(* (parse_diff), the markdown cleaner (clean_markdown), the checklist      *)
(* retrieval (get_checklist), the per-file review loop (call_ollama_api),  *)
(* the review aggregation (post_review_comments) and the pipeline (main).  *)
(* Python strings are sequences of one-character strings.                  *)
(***************************************************************************)
EXTENDS Integers, Sequences, FiniteSets, TLC

VARIABLES
    \* the cleaner applied to a text
    cpc, content, cleaned, recleaned, reflow_lines, reflowed,
    \* the segmenter applied to a diff text; files is also call_ollama_api's
    dpc, diff_text, files,
    \* the pipeline: main, get_checklist, call_ollama_api, post_review_comments
    pc, caller, retries, diff, checklist, file_idx, attempt, prompt,
    all_reviews, payload,
    \* what has happened so far
    attempts, failed, ok_at, ok_review, review_calls, submitted, failed_at,
    diff_outcome, checklist_outcome

cleanVars == <<cpc, content, cleaned, recleaned, reflow_lines, reflowed>>
diffVars == <<dpc, diff_text>>
loopVars == <<file_idx, attempt, prompt, all_reviews>>
historyVars == <<attempts, failed, ok_at, ok_review, review_calls>>
mainVars == <<pc, caller, retries, diff, checklist, loopVars, payload, historyVars,
              submitted, failed_at, diff_outcome, checklist_outcome>>
vars == <<cleanVars, diffVars, files, mainVars>>

(***************************************************************************)
(* Bounds of the model.                                                    *)
(***************************************************************************)
MaxFrags == 5
MaxLines == 4
MaxFiles == 2
MaxRetries == 3

\* retries: int = 5
DefaultRetries == 5

(***************************************************************************)
(* Character classes of Python's re and str, over the model's alphabet.    *)
(***************************************************************************)
Letters == {"a", "b", "d", "f", "g", "h", "i", "p", "s", "t", "x", "y"}
Whitespace == {" ", "\n", "\t"}
\* \w of the regular expressions: letters, digits and the underscore
WordChars == Letters \cup {"_"}
\* [a-zA-Z] | [0-9] | [$-_@.&+] | [!*\\(\\),]: the range $-_ is ASCII 0x24..0x5F
UrlChars == Letters \cup {"$", "%", "&", "(", ")", "*", "+", ",", "-", ".", "/",
                          ":", ";", "<", "=", ">", "?", "@", "[", "]", "^", "_", "!"}
\* the backtick is written "backtick": a TLA+ string cannot hold it
EmphasisMarkers == {"*", "_", "~", "backtick"}
\* [\w\s\.\,\;\:\-\(\)\[\]|], the characters line 97 keeps
KeptChars == WordChars \cup Whitespace \cup {".", ",", ";", ":", "-", "(", ")", "[", "]", "|"}

Min(S) == CHOOSE x \in S : \A y \in S : x <= y
Max(S) == CHOOSE x \in S : \A y \in S : x >= y

(***************************************************************************)
(* str methods.                                                            *)
(***************************************************************************)
RECURSIVE LStripSet(_, _)
LStripSet(s, chars) ==
    IF s # <<>> /\ Head(s) \in chars THEN LStripSet(Tail(s), chars) ELSE s

RECURSIVE RStripSet(_, _)
RStripSet(s, chars) ==
    IF s # <<>> /\ s[Len(s)] \in chars
    THEN RStripSet(SubSeq(s, 1, Len(s) - 1), chars)
    ELSE s

\* str.strip()
Strip(s) == RStripSet(LStripSet(s, Whitespace), Whitespace)

\* str.startswith(p)
StartsWith(s, p) == Len(p) <= Len(s) /\ SubSeq(s, 1, Len(p)) = p

\* whether p occurs in s at index i
HasAt(s, i, p) == i + Len(p) - 1 <= Len(s) /\ SubSeq(s, i, i + Len(p) - 1) = p

\* str.split("\n"): always at least one piece
RECURSIVE SplitNLFrom(_, _, _)
SplitNLFrom(s, i, cur) ==
    IF i > Len(s) THEN <<cur>>
    ELSE IF s[i] = "\n" THEN <<cur>> \o SplitNLFrom(s, i + 1, <<>>)
    ELSE SplitNLFrom(s, i + 1, Append(cur, s[i]))

SplitNL(s) == SplitNLFrom(s, 1, <<>>)

\* sep.join(parts)
RECURSIVE Join(_, _)
Join(parts, sep) ==
    IF parts = <<>> THEN <<>>
    ELSE IF Len(parts) = 1 THEN parts[1]
    ELSE parts[1] \o sep \o Join(Tail(parts), sep)

\* str.split(): the whitespace-separated tokens
RECURSIVE SplitWsFrom(_, _, _)
SplitWsFrom(s, i, cur) ==
    IF i > Len(s) THEN (IF cur = <<>> THEN <<>> ELSE <<cur>>)
    ELSE IF s[i] \in Whitespace
         THEN (IF cur = <<>> THEN <<>> ELSE <<cur>>) \o SplitWsFrom(s, i + 1, <<>>)
    ELSE SplitWsFrom(s, i + 1, Append(cur, s[i]))

SplitWs(s) == SplitWsFrom(s, 1, <<>>)

\* the length of the run of characters of cls that starts at index i
RECURSIVE RunLen(_, _, _)
RunLen(s, i, cls) ==
    IF i <= Len(s) /\ s[i] \in cls THEN 1 + RunLen(s, i + 1, cls) ELSE 0

\* the last index of the line that holds index i
RECURSIVE LineEnd(_, _)
LineEnd(s, i) ==
    IF i < Len(s) /\ s[i + 1] # "\n" THEN LineEnd(s, i + 1) ELSE i

(***************************************************************************)
(* clean_markdown, step by step.                                           *)
(***************************************************************************)
HTTP == <<"h", "t", "t", "p", ":", "/", "/">>
HTTPS == <<"h", "t", "t", "p", "s", ":", "/", "/">>

\* the length of the match of the URL pattern at index i, 0 when there is none
UrlMatchLen(s, i) ==
    LET scheme == IF HasAt(s, i, HTTPS) THEN Len(HTTPS)
                  ELSE IF HasAt(s, i, HTTP) THEN Len(HTTP) ELSE 0
        run == RunLen(s, i + scheme, UrlChars)
    IN IF scheme > 0 /\ run > 0 THEN scheme + run ELSE 0

RECURSIVE RemoveUrlsFrom(_, _)
RemoveUrlsFrom(s, i) ==
    IF i > Len(s) THEN <<>>
    ELSE IF UrlMatchLen(s, i) > 0 THEN RemoveUrlsFrom(s, i + UrlMatchLen(s, i))
    ELSE <<s[i]>> \o RemoveUrlsFrom(s, i + 1)

RemoveUrls(s) == RemoveUrlsFrom(s, 1)

\* ([*_~backtick])(.+?)\1 at index i: the index of the closing marker, 0 when none
EmphasisClose(s, i) ==
    LET closing == {j \in (i + 2)..Len(s) :
                       /\ s[j] = s[i]
                       /\ \A k \in (i + 1)..(j - 1) : s[k] # "\n"}
    IN IF s[i] \in EmphasisMarkers /\ closing # {} THEN Min(closing) ELSE 0

RECURSIVE RemoveEmphasisFrom(_, _)
RemoveEmphasisFrom(s, i) ==
    IF i > Len(s) THEN <<>>
    ELSE IF EmphasisClose(s, i) > 0
         THEN SubSeq(s, i + 1, EmphasisClose(s, i) - 1)
                  \o RemoveEmphasisFrom(s, EmphasisClose(s, i) + 1)
    ELSE <<s[i]>> \o RemoveEmphasisFrom(s, i + 1)

RemoveEmphasis(s) == RemoveEmphasisFrom(s, 1)

\* ^#+\s+(.+)$ with re.MULTILINE at index i: the index where group 1 starts,
\* 0 when there is no match. \s+ also crosses newlines; it gives back
\* characters until one that is not a newline follows it.
HeadingGroupStart(s, i) ==
    LET h == RunLen(s, i, {"#"})
        w == RunLen(s, i + h, Whitespace)
        starts == {g \in (i + h + 1)..(i + h + w) : g <= Len(s) /\ s[g] # "\n"}
    IN IF (i = 1 \/ s[i - 1] = "\n") /\ h > 0 /\ w > 0 /\ starts # {}
       THEN Max(starts) ELSE 0

RECURSIVE RemoveHeadingsFrom(_, _)
RemoveHeadingsFrom(s, i) ==
    IF i > Len(s) THEN <<>>
    ELSE IF HeadingGroupStart(s, i) > 0
         THEN LET g == HeadingGroupStart(s, i)
              IN SubSeq(s, g, LineEnd(s, g)) \o RemoveHeadingsFrom(s, LineEnd(s, g) + 1)
    ELSE <<s[i]>> \o RemoveHeadingsFrom(s, i + 1)

RemoveHeadings(s) == RemoveHeadingsFrom(s, 1)

\* line.strip().startswith("|") and line.strip().endswith("|")
IsTableLine(line) ==
    LET t == Strip(line) IN t # <<>> /\ t[1] = "|" /\ t[Len(t)] = "|"

\* the loop of lines 84-92 from line k on, in_table being the flag
RECURSIVE ReflowLoop(_, _, _)
ReflowLoop(lines, k, in_table) ==
    IF k > Len(lines) THEN <<>>
    ELSE IF IsTableLine(lines[k])
         THEN <<lines[k]>> \o ReflowLoop(lines, k + 1, TRUE)
    ELSE IF in_table /\ Strip(lines[k]) = <<>>
         THEN <<lines[k]>> \o ReflowLoop(lines, k + 1, FALSE)
    ELSE IF ~in_table
         THEN <<Strip(lines[k])>> \o ReflowLoop(lines, k + 1, in_table)
    ELSE ReflowLoop(lines, k + 1, in_table)

\* re.sub(r"\n{3,}", "\n\n", content)
RECURSIVE CollapseNewlinesFrom(_, _)
CollapseNewlinesFrom(s, i) ==
    IF i > Len(s) THEN <<>>
    ELSE LET n == RunLen(s, i, {"\n"})
         IN IF n >= 3 THEN <<"\n", "\n">> \o CollapseNewlinesFrom(s, i + n)
            ELSE <<s[i]>> \o CollapseNewlinesFrom(s, i + 1)

\* lines 81-94: the line re-flow of a text
Reflow(s) == CollapseNewlinesFrom(Join(ReflowLoop(SplitNL(s), 1, FALSE), <<"\n">>), 1)

\* line 97
RemoveSpecial(s) == [i \in 1..Len(s) |-> IF s[i] \in KeptChars THEN s[i] ELSE " "]

\* line 100
NormalizeLine(line) == Join(SplitWs(line), <<" ">>)

NormalizeLines(s) ==
    LET ls == SplitNL(s)
    IN Join([k \in 1..Len(ls) |-> NormalizeLine(ls[k])], <<"\n">>)

\* the text the line re-flow receives: lines 68-78
BeforeReflow(s) == RemoveHeadings(RemoveEmphasis(RemoveUrls(s)))

clean_markdown(s) == Strip(NormalizeLines(RemoveSpecial(Reflow(BeforeReflow(s)))))

(***************************************************************************)
(* A Python dict in insertion order: a sequence of [key, value] entries.   *)
(***************************************************************************)
HasKey(d, k) == \E n \in 1..Len(d) : d[n].key = k

Get(d, k) == d[CHOOSE n \in 1..Len(d) : d[n].key = k].value

\* d[k] = v: a key already present keeps its place
DictSet(d, k, v) ==
    IF HasKey(d, k)
    THEN [n \in 1..Len(d) |-> IF d[n].key = k THEN [key |-> k, value |-> v] ELSE d[n]]
    ELSE Append(d, [key |-> k, value |-> v])

(***************************************************************************)
(* parse_diff.                                                             *)
(***************************************************************************)
DIFF_GIT == <<"d", "i", "f", "f", " ", "-", "-", "g", "i", "t">>

\* line.split()[-1].lstrip("b/"): lstrip takes a set of characters
MarkerPath(line) ==
    LET tokens == SplitWs(line) IN LStripSet(tokens[Len(tokens)], {"b", "/"})

\* current_file: None, or the path of the open segment
NoFile == [set |-> FALSE, path |-> <<>>]

\* `if current_file:` is false for None and for the empty string
Truthy(current_file) == current_file.set /\ current_file.path # <<>>

Flush(fs, current_file, current_content) ==
    IF Truthy(current_file)
    THEN DictSet(fs, current_file.path, Join(current_content, <<"\n">>))
    ELSE fs

\* the loop of lines 259-266 from line k on, and the flush of lines 268-269
RECURSIVE ParseLoop(_, _, _, _, _)
ParseLoop(lines, k, fs, current_file, current_content) ==
    IF k > Len(lines) THEN Flush(fs, current_file, current_content)
    ELSE IF StartsWith(lines[k], DIFF_GIT)
         THEN ParseLoop(lines, k + 1, Flush(fs, current_file, current_content),
                        [set |-> TRUE, path |-> MarkerPath(lines[k])], <<>>)
    ELSE ParseLoop(lines, k + 1, fs, current_file, Append(current_content, lines[k]))

parse_diff(text) == ParseLoop(SplitNL(text), 1, <<>>, NoFile, <<>>)

(***************************************************************************)
(* The segmenter applied to a diff text.                                   *)
(***************************************************************************)
\* "diff --git a/<name> b/<name>"
Marker(name) == DIFF_GIT \o <<" ", "a", "/">> \o name \o <<" ", "b", "/">> \o name

DiffLines == {Marker(<<"x">>), Marker(<<"y">>), Marker(<<"b", "y">>), Marker(<<"b">>),
              <<"+", "a">>, <<>>}

RECURSIVE LineSeqs(_)
LineSeqs(n) ==
    IF n = 0 THEN {<<>>}
    ELSE LineSeqs(n - 1) \cup {Append(t, l) : t \in LineSeqs(n - 1), l \in DiffLines}

(***************************************************************************)
(* The cleaner applied to a text, and again to its own result.             *)
(***************************************************************************)
Fragments == {<<"_">>, <<"a">>, <<" ">>, <<"\n">>, <<"|">>, <<"#">>, <<"*">>,
              HTTP \o <<"a">>}

RECURSIVE Texts(_)
Texts(n) ==
    IF n = 0 THEN {<<>>}
    ELSE Texts(n - 1) \cup {t \o f : t \in Texts(n - 1), f \in Fragments}

NoPrompt == [file_name |-> <<>>, checklist |-> <<>>, file_diff |-> <<>>]

NoSummary == [heading |-> "", lines |-> <<>>, note |-> ""]

NoPayload == [built |-> FALSE, body |-> NoSummary, event |-> "", comments |-> <<>>]

IdleMain ==
    /\ pc = "idle" /\ caller = "none" /\ retries = DefaultRetries
    /\ diff = <<>> /\ checklist = <<>>
    /\ file_idx = 0 /\ attempt = 0 /\ prompt = NoPrompt
    /\ all_reviews = <<>> /\ payload = NoPayload
    /\ attempts = <<>> /\ failed = <<>> /\ ok_at = <<>> /\ ok_review = <<>>
    /\ review_calls = 0 /\ submitted = FALSE /\ failed_at = "none"
    /\ diff_outcome = "none" /\ checklist_outcome = "none"

IdleClean ==
    /\ cpc = "idle" /\ content = <<>> /\ cleaned = <<>> /\ recleaned = <<>>
    /\ reflow_lines = <<>> /\ reflowed = <<>>

IdleDiff == dpc = "idle" /\ diff_text = <<>>

InitClean ==
    /\ cpc = "start"
    /\ content \in Texts(MaxFrags)
    /\ cleaned = <<>> /\ recleaned = <<>>
    /\ reflow_lines = <<>> /\ reflowed = <<>>
    /\ IdleDiff /\ files = <<>>
    /\ IdleMain

CleanOnce ==
    /\ cpc = "start"
    /\ cleaned' = clean_markdown(content)
    /\ reflow_lines' = SplitNL(BeforeReflow(content))
    /\ reflowed' = Reflow(BeforeReflow(content))
    /\ cpc' = "cleaned"
    /\ UNCHANGED <<content, recleaned, diffVars, files, mainVars>>

CleanAgain ==
    /\ cpc = "cleaned"
    /\ recleaned' = clean_markdown(cleaned)
    /\ cpc' = "recleaned"
    /\ UNCHANGED <<content, cleaned, reflow_lines, reflowed, diffVars, files, mainVars>>

NextClean == CleanOnce \/ CleanAgain

SpecClean == InitClean /\ [][NextClean]_vars

InitDiff ==
    /\ dpc = "start"
    /\ diff_text \in {Join(ls, <<"\n">>) : ls \in LineSeqs(MaxLines)}
    /\ files = <<>>
    /\ IdleClean
    /\ IdleMain

ParseDiff ==
    /\ dpc = "start"
    /\ files' = parse_diff(diff_text)
    /\ dpc' = "parsed"
    /\ UNCHANGED <<diff_text, cleanVars, mainVars>>

NextDiff == ParseDiff

SpecDiff == InitDiff /\ [][NextDiff]_vars

(***************************************************************************)
(* get_checklist: parse_response and get_clickup_docs.                     *)
(***************************************************************************)
\* a JSON value of the document API: a dict or not, with or without the
\* "content" key, and its list of "pages"
Page(c, ps) == [isdict |-> TRUE, has_content |-> TRUE, content |-> c, pages |-> ps]
NotADict == [isdict |-> FALSE, has_content |-> FALSE, content |-> <<>>, pages |-> <<>>]
NoContentPage == [isdict |-> TRUE, has_content |-> FALSE, content |-> <<>>, pages |-> <<>>]

\* lines 107-114. item.get fails on a value that is no dict (AttributeError),
\* clean_markdown(None) fails in re.sub (TypeError).
RECURSIVE extract_info(_)
RECURSIVE ExtractPages(_, _, _)
extract_info(item) ==
    IF ~item.isdict THEN [error |-> "AttributeError", documents |-> <<>>]
    ELSE IF ~item.has_content THEN [error |-> "TypeError", documents |-> <<>>]
    ELSE LET data == clean_markdown(item.content)
         IN ExtractPages(item.pages, 1, IF data # <<>> THEN <<data>> ELSE <<>>)

ExtractPages(pages, k, parsed_data) ==
    IF k > Len(pages) THEN [error |-> "none", documents |-> parsed_data]
    ELSE LET r == extract_info(pages[k])
         IN IF r.error # "none" THEN r
            ELSE ExtractPages(pages, k + 1, parsed_data \o r.documents)

\* lines 116-121
parse_response(response) ==
    IF response.isdict THEN extract_info(response)
    ELSE [error |-> "ValueError", documents |-> <<>>]

\* what the try block of lines 127-131 raises for an outcome of the request;
\* the JSONDecodeError of response.json() is a ValueError
ClickupError(o) ==
    IF o.kind \in {"Transport", "HttpError"} THEN "RequestException"
    ELSE IF o.kind = "BodyNotJson" THEN "ValueError"
    ELSE parse_response(o.doc).error

DocSeparator == <<"\n", "\n", "\n">>

\* a variant that lets the ValueError of parse_response escape
get_clickup_docs_uncaught(o) ==
    IF ClickupError(o) = "none"
    THEN [raised |-> FALSE, text |-> Join(parse_response(o.doc).documents, DocSeparator)]
    ELSE IF ClickupError(o) = "RequestException"
         THEN [raised |-> FALSE, text |-> Join(<<>>, DocSeparator)]
    ELSE [raised |-> TRUE, text |-> <<>>]

\* lines 123-139: the two except clauses set documents = []
get_clickup_docs(o) ==
    IF ClickupError(o) = "none"
    THEN [raised |-> FALSE, text |-> Join(parse_response(o.doc).documents, DocSeparator)]
    ELSE IF ClickupError(o) \in {"RequestException", "ValueError"}
         THEN [raised |-> FALSE, text |-> Join(<<>>, DocSeparator)]
    ELSE [raised |-> TRUE, text |-> <<>>]

\* lines 141-144: the URL is taken apart first; url_ok says whether the two
\* unpackings of CHECKLIST_API_URL succeed
get_checklist(url_ok, o) ==
    IF url_ok THEN get_clickup_docs(o) ELSE [raised |-> TRUE, text |-> <<>>]

Documents ==
    { Page(<<"a">>, <<>>),
      Page(<<"#", " ", "a">>,
           << Page(<<"*">>, <<>>),
              Page(<<"|", " ", "a", " ", "|">>, << Page(<<"_", "a", "_">>, <<>>) >>) >>),
      Page(<<"a">>, << NoContentPage >>),
      NoContentPage,
      NotADict }

ChecklistOutcomes ==
    {[kind |-> k, doc |-> NotADict] : k \in {"Transport", "HttpError", "BodyNotJson"}}
        \cup {[kind |-> "Body", doc |-> d] : d \in Documents}

(***************************************************************************)
(* call_ollama_api.                                                        *)
(***************************************************************************)
TopKeys == {"general_assessment", "positive_aspects", "issues", "checklist_violations"}

\* str(n)
RECURSIVE IntText(_)
IntText(n) ==
    IF n < 0 THEN <<"-">> \o IntText(0 - n)
    ELSE IF n >= 10 THEN IntText(n \div 10) \o IntText(n % 10)
    ELSE <<(<<"0", "1", "2", "3", "4", "5", "6", "7", "8", "9">>)[n + 1]>>

\* a parsed JSON value: a dict or not, its top-level keys, whether the items
\* of its lists have the keys post_review_comments reads, which response it
\* is, and the text under "error"
Review(keys, id) ==
    [isdict |-> TRUE, keys |-> keys, nested_ok |-> TRUE, id |-> id, error |-> <<>>]

NoReview == [isdict |-> FALSE, keys |-> {}, nested_ok |-> FALSE, id |-> 0, error |-> <<>>]

JsonValues ==
    { Review(TopKeys, 1), Review(TopKeys, 2),
      Review({"general_assessment"}, 3),
      [Review(TopKeys, 4) EXCEPT !.nested_ok = FALSE],
      [Review({"error"}, 5) EXCEPT !.error = <<"model said no">>],
      [NoReview EXCEPT !.id = 6] }

\* lines 247-249
ExhaustedError(n) ==
    [Review({"error"}, 0) EXCEPT
        !.error = <<"Failed to get a valid response after ">> \o IntText(n)
                      \o <<" attempts">>]

AttemptOutcomes ==
    {[kind |-> k, review |-> NoReview] :
        k \in {"Transport", "HttpError", "BodyNotJson", "BodyNotDict",
               "NoResponseField", "ResponseNotText", "TextNotJson"}}
        \cup {[kind |-> "Json", review |-> v] : v \in JsonValues}

\* what the try block of lines 235-242 raises for an outcome of the request
Raised(o) ==
    CASE o.kind \in {"Transport", "HttpError"} -> "RequestException"  \* 236, 237
      [] o.kind = "BodyNotJson" -> "JSONDecodeError"      \* response.json()
      [] o.kind = "BodyNotDict" -> "AttributeError"       \* .get of a list
      [] o.kind = "NoResponseField" -> "JSONDecodeError"  \* json.loads("")
      [] o.kind = "ResponseNotText" -> "TypeError"        \* json.loads(None)
      [] o.kind = "TextNotJson" -> "JSONDecodeError"      \* json.loads(text)
      [] OTHER -> "none"

\* line 243
CaughtInLoop == {"RequestException", "JSONDecodeError"}

\* a variant that gives a file up one attempt early
NextAttemptOneShort(i, a) ==
    IF a + 2 < retries THEN [file_idx |-> i, attempt |-> a + 1]
    ELSE [file_idx |-> i + 1, attempt |-> 0]

\* the next position of the loops when attempt a of file i went on without break
NextAttempt(i, a) ==
    IF a + 1 < retries THEN [file_idx |-> i, attempt |-> a + 1]
    ELSE [file_idx |-> i + 1, attempt |-> 0]

\* a variant without the break of line 242
AfterRecordedNoBreak(i, a) == NextAttempt(i, a)

\* line 242: break
AfterRecorded(i, a) == [file_idx |-> i + 1, attempt |-> 0]

\* lines 153-231
Prompt(entry) == [file_name |-> entry.key, checklist |-> checklist, file_diff |-> entry.value]

\* the response schema of the prompt: every top-level field, well-formed items
Acceptable(review) ==
    review.isdict /\ TopKeys \subseteq review.keys /\ review.nested_ok

(***************************************************************************)
(* post_review_comments.                                                   *)
(***************************************************************************)
\* whether lines 21-48 run through for a review: a value that is no dict, a
\* missing key or a malformed item raises
Renderable(review) ==
    /\ review.isdict
    /\ "error" \in review.keys \/ (TopKeys \subseteq review.keys /\ review.nested_ok)

\* lines 21-41: the parts of the comment body
FileBody(file_name, review) ==
    IF "error" \in review.keys
    THEN [file_name |-> file_name, failed |-> TRUE, error |-> review.error, review |-> 0]
    ELSE [file_name |-> file_name, failed |-> FALSE, error |-> <<>>, review |-> review.id]

\* line 43
CommentFor(file_name, review) ==
    [path |-> file_name, body |-> FileBody(file_name, review), position |-> 1]

\* lines 46-48: assessment 0 stands for 'Review failed'
SummaryLine(file_name, review) ==
    [file_name |-> file_name,
     assessment |-> IF "general_assessment" \in review.keys THEN review.id ELSE 0]

RECURSIVE WithoutErrors(_)
WithoutErrors(reviews) ==
    IF reviews = <<>> THEN <<>>
    ELSE IF "error" \in Head(reviews).value.keys THEN WithoutErrors(Tail(reviews))
    ELSE <<Head(reviews)>> \o WithoutErrors(Tail(reviews))

\* lines 18, 46-52: the heading, one line per file, the closing note
SummaryBody(reviews) ==
    [heading |-> "## AI-Powered Code Review Summary",
     lines |-> [n \in 1..Len(reviews) |-> SummaryLine(reviews[n].key, reviews[n].value)],
     note |-> "> Please review the individual file comments for detailed feedback."]

BuildPayload(reviews) ==
    [built |-> TRUE,
     body |-> SummaryBody(reviews),
     event |-> "REQUEST_CHANGES",
     comments |-> [n \in 1..Len(reviews) |-> CommentFor(reviews[n].key, reviews[n].value)]]

\* a variant that posts no comment for a file whose review failed
post_review_comments_skipping_errors(reviews) ==
    IF \E n \in 1..Len(reviews) : ~Renderable(reviews[n].value)
    THEN [raised |-> TRUE, payload |-> NoPayload]
    ELSE [raised |-> FALSE, payload |-> BuildPayload(WithoutErrors(reviews))]

\* lines 17-58: the payload, or the exception of the first review that does
\* not render
post_review_comments(reviews) ==
    IF \E n \in 1..Len(reviews) : ~Renderable(reviews[n].value)
    THEN [raised |-> TRUE, payload |-> NoPayload]
    ELSE [raised |-> FALSE, payload |-> BuildPayload(reviews)]

(***************************************************************************)
(* The pipeline: main, and call_ollama_api called on its own.              *)
(***************************************************************************)
FileName(k) == [j \in 1..k |-> "x"]

RECURSIVE SectionLines(_)
SectionLines(n) ==
    IF n = 0 THEN <<>>
    ELSE SectionLines(n - 1) \o <<Marker(FileName(n)), <<"+", "a">>>>

\* the diff of a change set of n files
DiffOf(n) == Join(SectionLines(n), <<"\n">>)

PipelineDiffs == {DiffOf(n) : n \in 0..MaxFiles}

RetriesDomain == (0 - 1)..MaxRetries

InitMain ==
    /\ pc = "main" /\ caller = "main" /\ retries = DefaultRetries
    /\ diff = <<>> /\ checklist = <<>>

InitDirect ==
    /\ pc = "call_ollama_api" /\ caller = "direct" /\ retries \in RetriesDomain
    /\ diff \in PipelineDiffs /\ checklist = <<"a">>

Init ==
    /\ InitMain \/ InitDirect
    /\ file_idx = 0 /\ attempt = 0 /\ prompt = NoPrompt
    /\ all_reviews = <<>> /\ payload = NoPayload
    /\ attempts = <<>> /\ failed = <<>> /\ ok_at = <<>> /\ ok_review = <<>>
    /\ review_calls = 0 /\ submitted = FALSE /\ failed_at = "none"
    /\ diff_outcome = "none" /\ checklist_outcome = "none"
    /\ files = <<>>
    /\ IdleClean /\ IdleDiff

\* an exception that leaves a function: main's handlers (lines 304-309)
\* print it and main ends; a direct caller sees it raised
Fail(where) ==
    /\ pc' = IF caller = "main" THEN "failed" ELSE "raised"
    /\ failed_at' = where

\* lines 274-277 and 288
GetPrDiff ==
    /\ pc = "main"
    /\ \E o \in {"Ok", "Transport", "HttpError"} :
          /\ diff_outcome' = o
          /\ IF o = "Ok"
             THEN /\ \E d \in PipelineDiffs : diff' = d
                  /\ pc' = "get_checklist"
                  /\ UNCHANGED failed_at
             ELSE /\ Fail("get_pr_diff")
                  /\ UNCHANGED diff
    /\ UNCHANGED <<caller, retries, checklist, loopVars, payload, historyVars, submitted,
                   checklist_outcome, files, cleanVars, diffVars>>

\* line 292
GetChecklist ==
    /\ pc = "get_checklist"
    /\ \E url_ok \in BOOLEAN, o \in ChecklistOutcomes :
          LET r == get_checklist(url_ok, o)
          IN /\ checklist_outcome' =
                    IF ~url_ok THEN "BadUrl"
                    ELSE IF o.kind # "Body" THEN o.kind
                    ELSE IF ~o.doc.isdict THEN "NotDict"
                    ELSE IF parse_response(o.doc).error # "none" THEN "BadPage"
                    ELSE "Document"
             /\ IF r.raised
                THEN Fail("get_checklist") /\ UNCHANGED checklist
                ELSE checklist' = r.text /\ pc' = "call_ollama_api" /\ UNCHANGED failed_at
    /\ UNCHANGED <<caller, retries, diff, loopVars, payload, historyVars, submitted,
                   diff_outcome, files, cleanVars, diffVars>>

\* lines 148-150
CallOllamaApi ==
    /\ pc = "call_ollama_api"
    /\ files' = parse_diff(diff)
    /\ all_reviews' = <<>>
    /\ file_idx' = 1 /\ attempt' = 0
    /\ attempts' = [n \in 1..Len(files') |-> 0]
    /\ failed' = [n \in 1..Len(files') |-> 0]
    /\ ok_at' = [n \in 1..Len(files') |-> 0]
    /\ ok_review' = [n \in 1..Len(files') |-> NoReview]
    /\ pc' = "review_loop"
    /\ UNCHANGED <<caller, retries, diff, checklist, prompt, payload, review_calls,
                   submitted, failed_at, diff_outcome, checklist_outcome,
                   cleanVars, diffVars>>

\* one pass through lines 235-242 that reaches line 241
AttemptRecorded ==
    /\ pc = "review_loop" /\ file_idx <= Len(files) /\ attempt < retries
    /\ \E o \in AttemptOutcomes :
          /\ Raised(o) = "none"
          /\ all_reviews' = DictSet(all_reviews, files[file_idx].key, o.review)
          /\ IF Acceptable(o.review) /\ ok_at[file_idx] = 0
             THEN /\ ok_at' = [ok_at EXCEPT ![file_idx] = attempt + 1]
                  /\ ok_review' = [ok_review EXCEPT ![file_idx] = o.review]
             ELSE UNCHANGED <<ok_at, ok_review>>
    /\ file_idx' = AfterRecorded(file_idx, attempt).file_idx
    /\ attempt' = AfterRecorded(file_idx, attempt).attempt
    /\ prompt' = Prompt(files[file_idx])
    /\ attempts' = [attempts EXCEPT ![file_idx] = @ + 1]
    /\ review_calls' = review_calls + 1
    /\ UNCHANGED <<pc, caller, retries, diff, checklist, payload, failed, submitted,
                   failed_at, diff_outcome, checklist_outcome, files, cleanVars, diffVars>>

\* one pass that ends in the except clause of lines 243-249
AttemptCaught ==
    /\ pc = "review_loop" /\ file_idx <= Len(files) /\ attempt < retries
    /\ \E o \in AttemptOutcomes : Raised(o) \in CaughtInLoop
    /\ all_reviews' = IF attempt = retries - 1
                      THEN DictSet(all_reviews, files[file_idx].key, ExhaustedError(retries))
                      ELSE all_reviews
    /\ file_idx' = NextAttempt(file_idx, attempt).file_idx
    /\ attempt' = NextAttempt(file_idx, attempt).attempt
    /\ prompt' = Prompt(files[file_idx])
    /\ attempts' = [attempts EXCEPT ![file_idx] = @ + 1]
    /\ failed' = [failed EXCEPT ![file_idx] = @ + 1]
    /\ review_calls' = review_calls + 1
    /\ UNCHANGED <<pc, caller, retries, diff, checklist, payload, ok_at, ok_review,
                   submitted, failed_at, diff_outcome, checklist_outcome, files,
                   cleanVars, diffVars>>

\* one pass that raises what line 243 does not catch: call_ollama_api ends
AttemptEscapes ==
    /\ pc = "review_loop" /\ file_idx <= Len(files) /\ attempt < retries
    /\ \E o \in AttemptOutcomes : Raised(o) \notin CaughtInLoop \cup {"none"}
    /\ Fail("call_ollama_api")
    /\ prompt' = Prompt(files[file_idx])
    /\ attempts' = [attempts EXCEPT ![file_idx] = @ + 1]
    /\ review_calls' = review_calls + 1
    /\ UNCHANGED <<caller, retries, diff, checklist, file_idx, attempt, all_reviews,
                   payload, failed, ok_at, ok_review, submitted, diff_outcome,
                   checklist_outcome, files, cleanVars, diffVars>>

\* line 234 with an empty range(retries): the file is passed over
EmptyRange ==
    /\ pc = "review_loop" /\ file_idx <= Len(files) /\ attempt >= retries
    /\ file_idx' = file_idx + 1
    /\ prompt' = Prompt(files[file_idx])
    /\ UNCHANGED <<pc, caller, retries, diff, checklist, attempt, all_reviews, payload,
                   historyVars, submitted, failed_at, diff_outcome, checklist_outcome,
                   files, cleanVars, diffVars>>

\* line 251
ReturnReviews ==
    /\ pc = "review_loop" /\ file_idx > Len(files)
    /\ pc' = IF caller = "main" THEN "post_review_comments" ELSE "returned"
    /\ UNCHANGED <<caller, retries, diff, checklist, loopVars, payload, historyVars,
                   submitted, failed_at, diff_outcome, checklist_outcome, files,
                   cleanVars, diffVars>>

\* lines 300-302: the payload is built and posted, the answer printed
PostReviewComments ==
    /\ pc = "post_review_comments"
    /\ LET r == post_review_comments(all_reviews)
       IN IF r.raised
          THEN /\ Fail("post_review_comments")
               /\ UNCHANGED <<payload, submitted>>
          ELSE /\ payload' = r.payload
               /\ submitted' = TRUE
               /\ \E o \in {"Ok", "Transport", "BodyNotJson"} :
                     IF o = "Ok" THEN pc' = "done" /\ UNCHANGED failed_at
                     ELSE IF o = "Transport" THEN Fail("requests.post")
                     ELSE Fail("res.json")
    /\ UNCHANGED <<caller, retries, diff, checklist, loopVars, historyVars,
                   diff_outcome, checklist_outcome, files, cleanVars, diffVars>>

Next ==
    \/ GetPrDiff
    \/ GetChecklist
    \/ CallOllamaApi
    \/ AttemptRecorded
    \/ AttemptCaught
    \/ AttemptEscapes
    \/ EmptyRange
    \/ ReturnReviews
    \/ PostReviewComments

Spec == Init /\ [][Next]_vars

(***************************************************************************)
(* Claims about the review loop, the checklist retrieval and the           *)
(* aggregation (checked under Spec).                                       *)
(***************************************************************************)
\* call_ollama_api has returned its mapping
ReviewReturned ==
    \/ pc \in {"returned", "post_review_comments", "done"}
    \/ failed_at \in {"post_review_comments", "requests.post", "res.json"}

\* call_ollama_api is over, by return or by an exception
ReviewOver == ReviewReturned \/ failed_at = "call_ollama_api"

IsErrorValue(v) == v.isdict /\ "error" \in v.keys

IsSuccessValue(v) == Acceptable(v) /\ "error" \notin v.keys

KeySet(d) == {d[n].key : n \in 1..Len(d)}

\* C1: when the review returns, whatever the retry count and the outcomes
\* of the endpoint, the mapping holds exactly one entry for each path of the
\* bundle and no other entry: no path is absent.
C1_OneEntryPerFile ==
    ReviewReturned =>
        /\ Len(all_reviews) = Len(files)
        /\ KeySet(all_reviews) = KeySet(files)

\* C2: whatever the endpoint returns for a file, the review goes on to every
\* later file of the bundle: when it is over, the loop has passed every file
\* or at least sent a request for it.
C2_FailureNeverAborts ==
    ReviewOver => \A n \in 1..Len(files) : file_idx > n \/ attempts[n] > 0

\* the error text the claims expect for a retry count
ExhaustionText(n) ==
    <<"Failed to get a valid response after ">> \o IntText(n) \o <<" attempts">>

\* C3: for a file whose every attempt failed (each caught: transport failure,
\* HTTP error, malformed response text) exactly `retries` attempts are made:
\* never more, and the loop leaves the file only after the last of them, its
\* result then being the error value whose text names the retry count.
C3_ExhaustionRecorded ==
    \A n \in 1..Len(attempts) :
        (attempts[n] >= 1 /\ failed[n] = attempts[n]) =>
            /\ attempts[n] <= retries
            /\ file_idx > n <=> attempts[n] = retries
            /\ file_idx > n =>
                   /\ HasKey(all_reviews, files[n].key)
                   /\ IsErrorValue(Get(all_reviews, files[n].key))
                   /\ Get(all_reviews, files[n].key).keys = {"error"}
                   /\ Get(all_reviews, files[n].key).error = ExhaustionText(retries)
            /\ file_idx = n => ~HasKey(all_reviews, files[n].key)

\* the first file exhausted its five attempts, and the next file was attempted
C3_Witness ==
    /\ Len(attempts) >= 2 /\ retries = DefaultRetries
    /\ failed[1] = retries /\ attempts[1] = retries
    /\ Get(all_reviews, files[1].key).error = ExhaustionText(retries)
    /\ attempts[2] > 0

\* C4: once the endpoint has returned an acceptable response for a file on
\* attempt k (after k - 1 failed attempts), k <= retries, the file's result
\* is the value parsed from that response, not the exhaustion error, and no
\* further attempt is made for the file.
C4_SuccessEndsTheAttempts ==
    \A n \in 1..Len(ok_at) :
        ok_at[n] # 0 =>
            /\ ok_at[n] <= retries
            /\ attempts[n] = ok_at[n]
            /\ failed[n] = ok_at[n] - 1
            /\ file_idx > n
            /\ HasKey(all_reviews, files[n].key)
            /\ Get(all_reviews, files[n].key) = ok_review[n]
            /\ Get(all_reviews, files[n].key).error # ExhaustionText(retries)

\* a file succeeded on its third attempt, and the review went on and returned
C4_Witness ==
    /\ ReviewReturned
    /\ \E n \in 1..Len(ok_at) : ok_at[n] = 3 /\ n < Len(files)

\* C5: a response that lacks a required top-level field is never recorded as
\* a file's result: every entry of the mapping that is no error value
\* exposes all four required fields.
C5_SuccessHasEveryField ==
    \A n \in 1..Len(all_reviews) :
        ~IsErrorValue(all_reviews[n].value) => IsSuccessValue(all_reviews[n].value)

Aggregated ==
    pc = "done" \/ failed_at \in {"post_review_comments", "requests.post", "res.json"}

\* C8: for a mapping of N success and error values the payload is built, its
\* comments are N, one per path in mapping order, each at position 1, its
\* summary has one line per file, and the comment of an error entry holds
\* the stored error string.
C8_OneCommentPerEntry ==
    (/\ Aggregated
     /\ \A n \in 1..Len(all_reviews) :
            IsSuccessValue(all_reviews[n].value) \/ IsErrorValue(all_reviews[n].value)) =>
        /\ payload.built
        /\ Len(payload.comments) = Len(all_reviews)
        /\ Len(payload.body.lines) = Len(all_reviews)
        /\ \A n \in 1..Len(all_reviews) :
               /\ payload.comments[n].path = all_reviews[n].key
               /\ payload.comments[n].position = 1
               /\ payload.body.lines[n].file_name = all_reviews[n].key
               /\ IsErrorValue(all_reviews[n].value) =>
                      /\ payload.comments[n].body.failed
                      /\ payload.comments[n].body.error = all_reviews[n].value.error

\* a payload was posted for a file that succeeded and a file that exhausted
\* its attempts
C8_Witness ==
    /\ pc = "done" /\ Len(all_reviews) = 2
    /\ IsSuccessValue(all_reviews[1].value)
    /\ all_reviews[2].value.error = ExhaustionText(retries)
    /\ Len(payload.comments) = 2

(***************************************************************************)
(* Claims about the segmenter (checked under SpecDiff).                    *)
(***************************************************************************)
RemovePrefix(s, p) == IF StartsWith(s, p) THEN SubSeq(s, Len(p) + 1, Len(s)) ELSE s

\* the path a marker line names: its trailing token without the "b/" prefix
NamedPath(line) ==
    LET tokens == SplitWs(line) IN RemovePrefix(tokens[Len(tokens)], <<"b", "/">>)

MarkerLines(lines) == {k \in 1..Len(lines) : StartsWith(lines[k], DIFF_GIT)}

NthMarker(lines, n) ==
    CHOOSE k \in MarkerLines(lines) :
        Cardinality({j \in MarkerLines(lines) : j < k}) = n - 1

\* the last line before the marker that follows line k, or the last line
SegmentEnd(lines, k) ==
    LET later == {j \in MarkerLines(lines) : j > k}
    IN IF later = {} THEN Len(lines) ELSE Min(later) - 1

\* C7: a diff whose marker lines name N pairwise distinct paths is segmented
\* into exactly N entries in marker order, entry n having the n-th marker's
\* path (trailing token without the "b/" prefix) and, as body, the lines
\* strictly between that marker and the next one (or the end of the text).
C7_SegmentsMatchMarkers ==
    dpc = "parsed" =>
        LET lines == SplitNL(diff_text)
            M == MarkerLines(lines)
        IN (\A j, k \in M : j # k => NamedPath(lines[j]) # NamedPath(lines[k])) =>
               /\ Len(files) = Cardinality(M)
               /\ \A n \in 1..Cardinality(M) :
                      LET k == NthMarker(lines, n)
                      IN /\ files[n].key = NamedPath(lines[k])
                         /\ files[n].value =
                                Join(SubSeq(lines, k + 1, SegmentEnd(lines, k)), <<"\n">>)

(***************************************************************************)
(* Claims about the cleaner (checked under SpecClean).                     *)
(***************************************************************************)
\* C9: cleaning is idempotent: cleaning a cleaned text changes nothing.
C9_CleanIdempotent == cpc = "recleaned" => recleaned = cleaned

\* a sequence of lines with every run of blank lines replaced by one empty line
RECURSIVE Squash(_, _)
Squash(lines, k) ==
    IF k > Len(lines) THEN <<>>
    ELSE IF Strip(lines[k]) # <<>> THEN <<lines[k]>> \o Squash(lines, k + 1)
    ELSE IF k > 1 /\ Strip(lines[k - 1]) = <<>> THEN Squash(lines, k + 1)
    ELSE <<(<<>>)>> \o Squash(lines, k + 1)

\* what the re-flow is claimed to make of a line: a table line unmodified,
\* any other line trimmed
KeptLine(line) == IF IsTableLine(line) THEN line ELSE Strip(line)

\* C10: the line re-flow keeps every line in order, a table line unmodified
\* and any other line trimmed, and removes only surplus blank lines of a run
\* of blank lines.
C10_ReflowKeepsEveryLine ==
    cpc # "start" =>
        Squash(SplitNL(reflowed), 1)
            = Squash([k \in 1..Len(reflow_lines) |-> KeptLine(reflow_lines[k])], 1)

====
